---- MODULE Spec2Model ----
(***************************************************************************)
(* Model of .github/scripts/qmad_uploader.py: one run of main(), step by   *)
(* step at every interaction with the environment (environment variables,  *)
(* local files, the analysis service, the document store).                 *)
(*                                                                         *)
(* Python strings whose characters matter (ratings, measure values, the    *)
(* commit SHA) are sequences of one-character strings; opaque tokens       *)
(* (identifiers, environment values) are TLA+ strings.  Percentages are    *)
(* integers in hundredths of a percent (82.3 is 8230).                     *)
(***************************************************************************)
EXTENDS Integers, Sequences, FiniteSets, TLC

VARIABLES
    pc,                 \* position of main()
    exitCode,           \* process exit code, NoExit while running
    uncaught,           \* exception that left main() uncaught, or "none"
    configError,        \* the configuration error main() exited on, or "none"
    envUnset,           \* the required variables found unset or empty in the environment
    credentials,        \* what step 2 found the credential to be, "unread" before
    runs,               \* runs of main() started against the store
    test_result,        \* PYTEST_RESULT
    short_commit,       \* commit_sha[:7]
    sonar_env,          \* the optional variables that are set and non-empty
    coverage_percent,   \* parse_coverage_xml("coverage.xml")
    taskFile,           \* what get_sonar_task_id found on disk
    task_id,            \* get_sonar_task_id()
    poll_i,             \* loop index of poll_sonar_analysis
    pollState,          \* "idle", "running" or "returned"
    statusQueries,      \* status queries issued by the poller
    sleeps,             \* time.sleep(5) calls made by the poller
    lastResp,           \* the last status response the poller received
    terminalResponses,  \* status responses received with SUCCESS, FAILED or CANCELED
    analysis_id,        \* value returned by poll_sonar_analysis
    fetchKind,          \* "none", "primary" or "fallback"
    fetchState,         \* "idle", "retry", "returned" or "raised"
    measuresLog,        \* measures queries issued: <<[fetch, auth, outcome], ...>>
    measuresBody,       \* the measures list of the last decoded measures body
    sonar_metrics,      \* the metrics mapping of main()
    final_coverage,
    metrics_data,
    risk,
    project_summary_data,
    writesLog,          \* store writes attempted: <<[doc, ok], ...>>
    metricsDocs,        \* projects/<id>/metrics/<commit> documents
    summaryDoc          \* projects/<id> document

vars == <<pc, exitCode, uncaught, configError, envUnset, credentials, runs, test_result,
          short_commit,
          sonar_env, coverage_percent, taskFile, task_id, poll_i, pollState,
          statusQueries, sleeps, lastResp, terminalResponses, analysis_id,
          fetchKind, fetchState, measuresLog, measuresBody, sonar_metrics, final_coverage,
          metrics_data, risk,
          project_summary_data, writesLog, metricsDocs, summaryDoc>>

----------------------------------------------------------------------------
(* Python values *)

None == "None"
NoExit == 0 - 1
EmptyMap == [k \in {} |-> 0]

\* dict.get(key, default)
Get(m, k, default) == IF k \in DOMAIN m THEN m[k] ELSE default

\* truth value of an opaque string or None, as tested by `if x:` / `not x`
Truthy(x) == x # None /\ x # ""

Min(a, b) == IF a < b THEN a ELSE b

\* The characters that occur in the modelled strings, in ASCII order.
AsciiOrder == <<".", "/", "0", "1", "2", "3", "4", "5", "6", "7", "8", "9",
                "A", "B", "C", "D", "E", "N", "a", "b", "c", "d", "e", "f", "x">>

Ord(c) == CHOOSE k \in 1..Len(AsciiOrder) : AsciiOrder[k] = c

Digits == {"0", "1", "2", "3", "4", "5", "6", "7", "8", "9"}

DigitVal(c) == Ord(c) - Ord("0")

\* Python's str > str: lexicographic on code points, a proper prefix is smaller.
StrGreater(a, b) ==
    LET n == Min(Len(a), Len(b))
        diff == {k \in 1..n : a[k] # b[k]}
    IN  IF diff = {}
        THEN Len(a) > Len(b)
        ELSE LET k == CHOOSE d \in diff : \A e \in diff : d <= e
             IN  Ord(a[k]) > Ord(b[k])

RECURSIVE DigitsValue(_)
DigitsValue(s) ==
    IF Len(s) = 0 THEN 0
    ELSE 10 * DigitsValue(SubSeq(s, 1, Len(s) - 1)) + DigitVal(s[Len(s)])

AllDigits(s) == \A k \in 1..Len(s) : s[k] \in Digits

\* int(value_str) over the modelled alphabet: a non-empty run of digits, else ValueError
IntValid(s) == Len(s) > 0 /\ AllDigits(s)
IntValue(s) == DigitsValue(s)

\* float(value_str): digits with at most one ".", at least one digit, else ValueError
DotPositions(s) == {k \in 1..Len(s) : s[k] = "."}
FloatValid(s) ==
    /\ \A k \in 1..Len(s) : s[k] \in Digits \cup {"."}
    /\ Cardinality(DotPositions(s)) <= 1
    /\ \E k \in 1..Len(s) : s[k] \in Digits

\* round(float(value_str), 2) in hundredths; the third fractional digit rounds
\* (the modelled inputs have no exact tie and at most three fractional digits)
FloatHundredths(s) ==
    LET dot == IF DotPositions(s) = {} THEN Len(s) + 1
               ELSE CHOOSE k \in DotPositions(s) : TRUE
        whole == SubSeq(s, 1, dot - 1)
        frac == SubSeq(s, dot + 1, Len(s))
        d(k) == IF k <= Len(frac) THEN DigitVal(frac[k]) ELSE 0
    IN  DigitsValue(whole) * 100 + d(1) * 10 + d(2) + (IF d(3) >= 5 THEN 1 ELSE 0)

----------------------------------------------------------------------------
(* Bounds of the modelled inputs *)

\* vulnerability counts the analysis service may report: 0..MaxVulnerabilities
MaxVulnerabilities == 2
\* bug counts the analysis service may report: 0..MaxBugs
MaxBugs == 6

\* Program constants
PollAttempts == 20
CoverageThreshold == 7000

----------------------------------------------------------------------------
(* Inputs *)

RequiredVars == <<"QMAD_PROJECT_ID", "GITHUB_SHA", "GITHUB_REPOSITORY", "GITHUB_RUN_ID",
                  "QMAD_FIREBASE_SERVICE_ACCOUNT", "PYTEST_RESULT">>
OptionalVars == {"SONAR_TOKEN", "SONAR_PROJECT_KEY", "SONAR_ORGANIZATION"}

\* os.environ.get: a variable is unset (None), set to the empty string, or set
EnvStates == {"unset", "empty", "set"}

TestResults == {"PASS", "FAIL", "ERROR"}
CommitShas == {<<"a", "b", "c", "1", "2", "3", "4", "5", "6">>}
RepoName == "owner/repo"
RunId == "42"
ProjectId == "proj"
ServerTimestamp == "SERVER_TIMESTAMP"

\* coverage.xml: absent, unparsable, or a root element with or without line-rate
\* (line-rate in units of 1/100000)
CoverageFiles ==
    {[kind |-> "absent", rate |-> 0], [kind |-> "malformed", rate |-> 0],
     [kind |-> "noattr", rate |-> 0]}
    \cup {[kind |-> "ok", rate |-> r] : r \in {0, 45004, 69996, 82300}}

\* report-task.txt at one path: absent, unreadable, or its ceTaskId entry
TaskFileStates == {"absent", "unreadable", "nokey", "emptyid", "id"}
TaskIdValue == "T1"

AnalysisIds == {"AX1", "AX2"}

\* One status query: the request raises, the status is an error status, the body
\* is not JSON, or the body carries a task with a status and maybe an analysisId
StatusResponses ==
    {[kind |-> k, status |-> None, analysisId |-> None] : k \in {"neterr", "httperr", "badjson"}}
    \cup {[kind |-> "ok", status |-> st, analysisId |-> None] :
            st \in {None, "PENDING", "IN_PROGRESS", "FAILED", "CANCELED"}}
    \cup {[kind |-> "ok", status |-> "SUCCESS", analysisId |-> a] :
            a \in AnalysisIds \cup {None, ""}}

Str(n) == <<AsciiOrder[Ord("0") + n]>>

Measure(k, v) == [metric |-> k, kind |-> "str", value |-> v]
MeasureNoValue(k) == [metric |-> k, kind |-> "missing", value |-> <<>>]
MeasureNull(k) == [metric |-> k, kind |-> "null", value |-> <<>>]

RatingKeys == {"security_rating", "reliability_rating", "sqale_rating"}
S_NA == <<"N", "/", "A">>

\* The measures lists a measures query may return
MeasureLists ==
    {<<>>,
     <<Measure("coverage", <<"8", "2", ".", "3">>)>>,
     <<Measure("coverage", <<"x">>), Measure("bugs", <<"3", ".", "0">>),
       Measure("security_rating", S_NA), MeasureNoValue("vulnerabilities")>>,
     <<Measure("bugs", <<"3">>), MeasureNull("code_smells"), Measure("sqale_rating", <<"A">>)>>}
    \cup {<<Measure("bugs", Str(b)), Measure("vulnerabilities", Str(v)),
            Measure("code_smells", <<"1", "2">>), Measure("coverage", g[1]),
            Measure("security_rating", g[2]), Measure("reliability_rating", <<"B">>),
            Measure("sqale_rating", g[3])>> :
            b \in {MaxBugs - 1, MaxBugs}, v \in {0, MaxVulnerabilities},
            g \in {<<<<"6", "5", ".", "0">>, <<"C">>, <<"B">>>>,
                   <<<<"7", "5", ".", "1", "2", "6">>, <<"D">>, <<"C">>>>}}

\* One measures query: the request raises, an error status, a body that is not
\* JSON, or a body with a measures list
MeasuresResponses ==
    {[kind |-> k, measures |-> <<>>] : k \in {"neterr", "http401", "http500", "badjson"}}
    \cup {[kind |-> "ok", measures |-> ms] : ms \in MeasureLists}

----------------------------------------------------------------------------
(* The functions of qmad_uploader.py *)

\* get_env_var with `if value is None and required`: an empty value passes
FirstMissingUnsetOnly(env) ==
    LET missing == {k \in 1..Len(RequiredVars) : env[RequiredVars[k]] = "unset"}
    IN  IF missing = {} THEN "none"
        ELSE RequiredVars[CHOOSE k \in missing : \A j \in missing : k <= j]

\* get_env_var(required=True): the first required variable, in the order main()
\* reads them, that is unset or empty; "none" when all are set
FirstMissing(env) ==
    LET missing == {k \in 1..Len(RequiredVars) : env[RequiredVars[k]] # "set"}
    IN  IF missing = {} THEN "none"
        ELSE RequiredVars[CHOOSE k \in missing : \A j \in missing : k <= j]

\* commit_sha[:7]
ShortCommit(sha) == SubSeq(sha, 1, Min(7, Len(sha)))

\* parse_coverage_xml: round(float(line-rate) * 100, 2), 0.0 on any error or absence
ParseCoverageXml(file) ==
    IF file.kind = "ok" THEN (file.rate + 5) \div 10 ELSE 0

\* get_sonar_task_id: the new path first, then the old one; None unless the file
\* read has a ceTaskId entry
GetSonarTaskId(newFile, oldFile) ==
    LET file == IF newFile = "absent" THEN oldFile ELSE newFile
    IN  IF file = "id" THEN TaskIdValue
        ELSE IF file = "emptyid" THEN ""
        ELSE None

\* poll_sonar_analysis: the loop runs for i in range(20)
PollLoopRunningOneMore(i) == i <= PollAttempts

PollLoopRunning(i) == i < PollAttempts

\* poll_sonar_analysis: what one iteration does with its response
PollDecisionFailedRetried(resp) ==
    IF resp.kind # "ok" THEN "except_sleep"
    ELSE IF resp.status = "SUCCESS" THEN "return_id"
    ELSE IF resp.status = "CANCELED" THEN "return_none"
    ELSE "sleep"

PollDecision(resp) ==
    IF resp.kind # "ok" THEN "except_sleep"
    ELSE IF resp.status = "SUCCESS" THEN "return_id"
    ELSE IF resp.status \in {"FAILED", "CANCELED"} THEN "return_none"
    ELSE "sleep"

\* poll_sonar_analysis: task_data.get("analysisId")
PollReturnValueTaskId(resp) == TaskIdValue

PollReturnValue(resp) == resp.analysisId

\* _parse_sonar_measures, one measure: the entry it adds, or a raised TypeError
\* (float(None), int(None)); ValueError is caught and gives 0
ParseMeasure(m) ==
    LET value_str == IF m.kind = "missing" THEN <<"0">>
                     ELSE IF m.kind = "null" THEN None ELSE m.value
    IN  IF m.metric \in RatingKeys
        THEN [raised |-> FALSE, value |-> value_str]
        ELSE IF m.kind = "null"
        THEN [raised |-> TRUE, value |-> 0]
        ELSE IF m.metric = "coverage"
        THEN [raised |-> FALSE,
              value |-> IF FloatValid(value_str) THEN FloatHundredths(value_str) ELSE 0]
        ELSE [raised |-> FALSE,
              value |-> IF IntValid(value_str) THEN IntValue(value_str) ELSE 0]

\* _parse_sonar_measures: the measures in order, a later entry replacing an earlier
\* one of the same key; an exception other than ValueError leaves the function
RECURSIVE ParseSonarMeasures(_)
ParseSonarMeasures(measures) ==
    IF Len(measures) = 0 THEN [raised |-> FALSE, metrics |-> EmptyMap]
    ELSE LET n == Len(measures)
             before == ParseSonarMeasures(SubSeq(measures, 1, n - 1))
             entry == ParseMeasure(measures[n])
         IN  IF before.raised \/ entry.raised
             THEN [raised |-> TRUE, metrics |-> EmptyMap]
             ELSE [raised |-> FALSE,
                   metrics |-> (measures[n].metric :> entry.value) @@ before.metrics]

\* the try block of both fetches after the request: raise_for_status, res.json(),
\* _parse_sonar_measures
FetchTry(resp) ==
    IF resp.kind = "ok" THEN ParseSonarMeasures(resp.measures)
    ELSE [raised |-> TRUE, metrics |-> EmptyMap]

\* whether `res` is bound when the except block runs
ResBound(resp) == resp.kind # "neterr"

\* get_sonar_metrics: the except block prints res.text, which raises
\* UnboundLocalError when requests.get itself raised
GetSonarMetrics(resp) ==
    LET t == FetchTry(resp)
    IN  IF ~t.raised THEN [raised |-> FALSE, metrics |-> t.metrics]
        ELSE IF ResBound(resp) THEN [raised |-> FALSE, metrics |-> EmptyMap]
        ELSE [raised |-> TRUE, metrics |-> EmptyMap]

\* get_sonar_metrics_fallback: the except block prints res.text only if "res" is
\* in locals()
GetSonarMetricsFallback(resp) ==
    LET t == FetchTry(resp)
    IN  IF ~t.raised THEN t.metrics ELSE EmptyMap

\* get_sonar_metrics_fallback: res.status_code == 401
NeedsBasicRetryAnyError(resp) == resp.kind \in {"http401", "http500"}

NeedsBasicRetry(resp) == resp.kind = "http401"

\* main, step 4: where the run goes after get_sonar_task_id
RouteAfterTaskIdSkipping(configured, tid) ==
    IF ~configured THEN "prepare"
    ELSE IF Truthy(tid) THEN "poll" ELSE "prepare"

RouteAfterTaskId(configured, tid) ==
    IF ~configured THEN "prepare"
    ELSE IF Truthy(tid) THEN "poll" ELSE "fallback"

\* main, step 4: where the run goes after poll_sonar_analysis
RouteAfterPollNotNone(aid) == IF aid # None THEN "primary" ELSE "fallback"

RouteAfterPoll(aid) == IF Truthy(aid) THEN "primary" ELSE "fallback"

\* main, step 4: `if sonar_token and sonar_project_key and sonar_org`
SonarConfiguredAnyOne(present) == present # {}

SonarConfigured(present) == OptionalVars \subseteq present

\* main, step 5: local coverage wins unless it is exactly 0 and the remote one is > 0
FinalCoverageRemoteFirst(local, metrics) ==
    IF Get(metrics, "coverage", 0) > 0
    THEN Get(metrics, "coverage", 0)
    ELSE local

FinalCoverage(local, metrics) ==
    IF Get(metrics, "coverage", 0) > 0 /\ local = 0
    THEN Get(metrics, "coverage", 0)
    ELSE local

\* main, step 5: f"https://github.com/{repo_name}/actions/runs/{run_id}"
GithubRunUrl(repo, run) == <<"https://github.com/", repo, "/actions/runs/", run>>

\* main, step 5: metrics_data
MetricsData(commit, test, coverage, metrics) ==
    [id |-> commit,
     testResult |-> test,
     coverage |-> coverage,
     vulnerabilities |-> Get(metrics, "vulnerabilities", 0),
     bugs |-> Get(metrics, "bugs", 0),
     codeSmells |-> Get(metrics, "code_smells", 0),
     maintainability |-> Get(metrics, "sqale_rating", S_NA),
     reliability |-> Get(metrics, "reliability_rating", S_NA),
     security |-> Get(metrics, "security_rating", S_NA),
     timestamp |-> ServerTimestamp,
     githubRunUrl |-> GithubRunUrl(RepoName, RunId)]

\* main, line 243: the condition of risk = "RED"
IsRedFromC(test, metrics) ==
    \/ test = "FAIL"
    \/ Get(metrics, "vulnerabilities", 0) > 0
    \/ /\ ~StrGreater(<<"C">>, Get(metrics, "security_rating", <<"A">>))
       /\ ("security_rating" \notin DOMAIN metrics \/ metrics["security_rating"] # S_NA)

\* main, line 243 without `!= "N/A"`: the rating "N/A" compares greater than "C"
IsRedCountingNA(test, metrics) ==
    \/ test = "FAIL"
    \/ Get(metrics, "vulnerabilities", 0) > 0
    \/ StrGreater(Get(metrics, "security_rating", <<"A">>), <<"C">>)

IsRed(test, metrics) ==
    \/ test = "FAIL"
    \/ Get(metrics, "vulnerabilities", 0) > 0
    \/ /\ StrGreater(Get(metrics, "security_rating", <<"A">>), <<"C">>)
       /\ ("security_rating" \notin DOMAIN metrics \/ metrics["security_rating"] # S_NA)

\* main, line 245: the condition of risk = "YELLOW"
IsYellowAtFive(coverage, metrics) ==
    \/ coverage < CoverageThreshold
    \/ Get(metrics, "bugs", 0) >= 5
    \/ /\ StrGreater(Get(metrics, "sqale_rating", <<"A">>), <<"B">>)
       /\ ("sqale_rating" \notin DOMAIN metrics \/ metrics["sqale_rating"] # S_NA)

IsYellow(coverage, metrics) ==
    \/ coverage < CoverageThreshold
    \/ Get(metrics, "bugs", 0) > 5
    \/ /\ StrGreater(Get(metrics, "sqale_rating", <<"A">>), <<"B">>)
       /\ ("sqale_rating" \notin DOMAIN metrics \/ metrics["sqale_rating"] # S_NA)

\* main, lines 242-246
Risk(test, coverage, metrics) ==
    IF IsRed(test, metrics) THEN "RED"
    ELSE IF IsYellow(coverage, metrics) THEN "YELLOW"
    ELSE "GREEN"

\* main, step 5: project_summary_data
ProjectSummaryData(commit, test, data, level) ==
    [projectName |-> RepoName,
     latestMetrics |-> data,
     latestCommit |-> commit,
     latestStatus |-> test,
     riskScore |-> level,
     lastAnalyzed |-> ServerTimestamp,
     githubRepoUrl |-> <<"https://github.com/", RepoName>>]

\* document.set(data): the document is replaced
SetDoc(docs, key, data) == (key :> data) @@ docs

\* document.set(data, merge=True): the fields given replace the stored ones, a map
\* field merges into the stored map, the other stored fields stay
MergeDoc(old, new) ==
    [k \in DOMAIN new \cup DOMAIN old |->
        IF k \notin DOMAIN new THEN old[k]
        ELSE IF k = "latestMetrics" /\ k \in DOMAIN old THEN new[k] @@ old[k]
        ELSE new[k]]

----------------------------------------------------------------------------
(* One run of main() *)

\* a status response that reports SUCCESS, FAILED or CANCELED
IsTerminal(resp) == resp.kind = "ok" /\ resp.status \in {"SUCCESS", "FAILED", "CANCELED"}

NoResp == [kind |-> "none", status |-> None, analysisId |-> None]

Init ==
    /\ pc = "env"
    /\ exitCode = NoExit
    /\ uncaught = "none"
    /\ configError = "none"
    /\ envUnset = {}
    /\ credentials = "unread"
    /\ runs = 1
    /\ test_result = None
    /\ short_commit = <<>>
    /\ sonar_env = {}
    /\ coverage_percent = 0
    /\ taskFile = "unread"
    /\ task_id = None
    /\ poll_i = 0
    /\ pollState = "idle"
    /\ statusQueries = 0
    /\ sleeps = 0
    /\ lastResp = NoResp
    /\ terminalResponses = 0
    /\ analysis_id = None
    /\ fetchKind = "none"
    /\ fetchState = "idle"
    /\ measuresLog = <<>>
    /\ measuresBody = <<>>
    /\ sonar_metrics = EmptyMap
    /\ final_coverage = 0
    /\ metrics_data = EmptyMap
    /\ risk = "unset"
    /\ project_summary_data = EmptyMap
    /\ writesLog = <<>>
    /\ metricsDocs = EmptyMap
    /\ summaryDoc = EmptyMap

pollVars == <<poll_i, pollState, statusQueries, sleeps, lastResp, terminalResponses,
              analysis_id>>
fetchVars == <<fetchKind, fetchState, measuresLog, measuresBody, sonar_metrics>>
dataVars == <<final_coverage, metrics_data, risk, project_summary_data>>
storeVars == <<writesLog, metricsDocs, summaryDoc>>
envVars == <<configError, envUnset, credentials, runs, test_result, short_commit, sonar_env>>

\* sys.exit(1), or an exception nobody catches: the interpreter exits with 1
Exit(code, exc) ==
    /\ pc' = "exited"
    /\ exitCode' = code
    /\ uncaught' = exc

Continue(to) ==
    /\ pc' = to
    /\ UNCHANGED <<exitCode, uncaught>>

\* main, step 1: the environment variables
LoadEnv ==
    /\ pc = "env"
    /\ \E env \in [{RequiredVars[k] : k \in 1..Len(RequiredVars)} \cup OptionalVars -> EnvStates],
          tr \in TestResults, sha \in CommitShas :
          LET missing == FirstMissing(env)
          IN  /\ envUnset' = {v \in {RequiredVars[k] : k \in 1..Len(RequiredVars)} : env[v] # "set"}
              /\ IF missing # "none"
                 THEN /\ configError' = missing
                      /\ Exit(1, "none")
                      /\ UNCHANGED <<test_result, short_commit, sonar_env>>
                 ELSE /\ test_result' = tr
                      /\ short_commit' = ShortCommit(sha)
                      /\ sonar_env' = {v \in OptionalVars : env[v] = "set"}
                      /\ Continue("firebase")
                      /\ UNCHANGED configError
    /\ UNCHANGED <<credentials, runs, coverage_percent, taskFile, task_id, pollVars, fetchVars, dataVars, storeVars>>

\* main, step 2: json.loads of the credential and the store client
InitFirebase ==
    /\ pc = "firebase"
    /\ \E creds \in {"ok", "malformed", "rejected"} :
          /\ credentials' = creds
          /\ IF creds = "ok"
             THEN Continue("coverage") /\ UNCHANGED configError
             ELSE Exit(1, "none") /\ configError' = "credentials"
    /\ UNCHANGED <<envUnset, runs, test_result, short_commit, sonar_env, coverage_percent, taskFile, task_id,
                   pollVars, fetchVars, dataVars, storeVars>>

\* main, step 3: parse_coverage_xml
ParseCoverage ==
    /\ pc = "coverage"
    /\ \E file \in CoverageFiles : coverage_percent' = ParseCoverageXml(file)
    /\ Continue("sonar")
    /\ UNCHANGED <<envVars, taskFile, task_id, pollVars, fetchVars, dataVars, storeVars>>

\* main, step 4, analysis service not configured: nothing is read or requested
SkipSonar ==
    /\ pc = "sonar"
    /\ ~SonarConfigured(sonar_env)
    /\ Continue(RouteAfterTaskId(FALSE, None))
    /\ UNCHANGED <<envVars, coverage_percent, taskFile, task_id, pollVars, fetchVars,
                   dataVars, storeVars>>

\* main, step 4, configured: get_sonar_task_id and the branch on its result
ReadTaskId ==
    /\ pc = "sonar"
    /\ SonarConfigured(sonar_env)
    /\ \E newFile \in TaskFileStates, oldFile \in TaskFileStates :
          LET tid == GetSonarTaskId(newFile, oldFile)
              to == RouteAfterTaskId(TRUE, tid)
          IN  /\ taskFile' = IF newFile = "absent" THEN oldFile ELSE newFile
              /\ task_id' = tid
              /\ pollState' = IF to = "poll" THEN "running" ELSE "idle"
              /\ fetchKind' = IF to = "fallback" THEN "fallback" ELSE "none"
              /\ Continue(to)
    /\ UNCHANGED <<envVars, coverage_percent, poll_i, statusQueries, sleeps, lastResp,
                   terminalResponses, analysis_id, fetchState, measuresLog, measuresBody, sonar_metrics,
                   dataVars, storeVars>>

\* poll_sonar_analysis returns `value` and main branches on it
PollReturns(value) ==
    /\ analysis_id' = value
    /\ pollState' = "returned"
    /\ fetchKind' = RouteAfterPoll(value)
    /\ Continue(RouteAfterPoll(value))

\* poll_sonar_analysis: one iteration of the loop
PollStep ==
    /\ pc = "poll"
    /\ pollState = "running"
    /\ PollLoopRunning(poll_i)
    /\ \E resp \in StatusResponses :
          LET decision == PollDecision(resp)
          IN  /\ statusQueries' = statusQueries + 1
              /\ lastResp' = resp
              /\ terminalResponses' = terminalResponses + (IF IsTerminal(resp) THEN 1 ELSE 0)
              /\ poll_i' = poll_i + 1
              /\ IF decision = "return_id"
                 THEN PollReturns(PollReturnValue(resp)) /\ UNCHANGED sleeps
                 ELSE IF decision = "return_none"
                 THEN PollReturns(None) /\ UNCHANGED sleeps
                 ELSE /\ sleeps' = sleeps + 1
                      /\ Continue("poll")
                      /\ UNCHANGED <<analysis_id, pollState, fetchKind>>
    /\ UNCHANGED <<envVars, coverage_percent, taskFile, task_id, fetchState, measuresLog,
                   measuresBody, sonar_metrics, dataVars, storeVars>>

\* poll_sonar_analysis: the loop is exhausted, "timed out", return None
PollTimeout ==
    /\ pc = "poll"
    /\ pollState = "running"
    /\ ~PollLoopRunning(poll_i)
    /\ PollReturns(None)
    /\ UNCHANGED <<envVars, coverage_percent, taskFile, task_id, poll_i, statusQueries, sleeps,
                   lastResp, terminalResponses, fetchState, measuresLog, measuresBody, sonar_metrics,
                   dataVars, storeVars>>

Logged(fetch, auth, resp) ==
    Append(measuresLog, [fetch |-> fetch, auth |-> auth, outcome |-> resp.kind])

\* main's fetches: measures = res.json().get("component", {}).get("measures", []), when reached
Decoded(resp) == IF resp.kind = "ok" THEN resp.measures ELSE measuresBody

\* get_sonar_metrics: one bearer-token query
PrimaryFetch ==
    /\ pc = "primary"
    /\ \E resp \in MeasuresResponses :
          LET r == GetSonarMetrics(resp)
          IN  /\ measuresLog' = Logged("primary", "bearer", resp)
              /\ measuresBody' = Decoded(resp)
              /\ IF r.raised
                 THEN /\ fetchState' = "raised"
                      /\ Exit(1, "UnboundLocalError")
                      /\ UNCHANGED sonar_metrics
                 ELSE /\ fetchState' = "returned"
                      /\ sonar_metrics' = r.metrics
                      /\ Continue("prepare")
    /\ UNCHANGED <<envVars, coverage_percent, taskFile, task_id, pollVars, fetchKind,
                   dataVars, storeVars>>

\* get_sonar_metrics_fallback: the bearer-token query
FallbackFetch ==
    /\ pc = "fallback"
    /\ \E resp \in MeasuresResponses :
          /\ measuresLog' = Logged("fallback", "bearer", resp)
          /\ IF NeedsBasicRetry(resp)
             THEN /\ fetchState' = "retry"
                  /\ Continue("fallback_basic")
                  /\ UNCHANGED <<measuresBody, sonar_metrics>>
             ELSE /\ fetchState' = "returned"
                  /\ measuresBody' = Decoded(resp)
                  /\ sonar_metrics' = GetSonarMetricsFallback(resp)
                  /\ Continue("prepare")
    /\ UNCHANGED <<envVars, coverage_percent, taskFile, task_id, pollVars, fetchKind,
                   dataVars, storeVars>>

\* get_sonar_metrics_fallback: the basic-authentication query after a 401
FallbackBasicFetch ==
    /\ pc = "fallback_basic"
    /\ \E resp \in MeasuresResponses :
          /\ measuresLog' = Logged("fallback", "basic", resp)
          /\ measuresBody' = Decoded(resp)
          /\ fetchState' = "returned"
          /\ sonar_metrics' = GetSonarMetricsFallback(resp)
          /\ Continue("prepare")
    /\ UNCHANGED <<envVars, coverage_percent, taskFile, task_id, pollVars, fetchKind,
                   dataVars, storeVars>>

\* main, step 5: the data packet and the risk level
PrepareData ==
    /\ pc = "prepare"
    /\ LET cov == FinalCoverage(coverage_percent, sonar_metrics)
           data == MetricsData(short_commit, test_result, cov, sonar_metrics)
           level == Risk(test_result, cov, sonar_metrics)
       IN  /\ final_coverage' = cov
           /\ metrics_data' = data
           /\ risk' = level
           /\ project_summary_data' = ProjectSummaryData(short_commit, test_result, data, level)
    /\ Continue("write_metrics")
    /\ UNCHANGED <<envVars, coverage_percent, taskFile, task_id, pollVars, fetchVars, storeVars>>

\* main, step 6: a write that raises is caught by the one `except Exception` around
\* both writes, which ends the run with sys.exit(1); the summary write follows a
\* metrics write that returned
WriteOutcomeMetricsFailureIgnored(doc, ok) ==
    IF doc = "metrics" THEN "next_write"
    ELSE IF ok THEN "done" ELSE "fail_exit"

WriteOutcome(doc, ok) ==
    IF ~ok THEN "fail_exit"
    ELSE IF doc = "metrics" THEN "next_write" ELSE "done"

\* main, step 6: metrics_ref.set(metrics_data)
WriteMetrics ==
    /\ pc = "write_metrics"
    /\ \E ok \in BOOLEAN :
          /\ writesLog' = Append(writesLog, [doc |-> "metrics", ok |-> ok])
          /\ metricsDocs' = IF ok THEN SetDoc(metricsDocs, short_commit, metrics_data)
                            ELSE metricsDocs
          /\ IF WriteOutcome("metrics", ok) = "next_write"
             THEN Continue("write_summary")
             ELSE Exit(1, "none")
    /\ UNCHANGED <<envVars, coverage_percent, taskFile, task_id, pollVars, fetchVars, dataVars,
                   summaryDoc>>

\* main, step 6: project_ref.set(project_summary_data, merge=True)
WriteSummary ==
    /\ pc = "write_summary"
    /\ \E ok \in BOOLEAN :
          /\ writesLog' = Append(writesLog, [doc |-> "summary", ok |-> ok])
          /\ summaryDoc' = IF ok THEN MergeDoc(summaryDoc, project_summary_data)
                           ELSE summaryDoc
          /\ IF WriteOutcome("summary", ok) = "done"
             THEN Exit(0, "none")
             ELSE Exit(1, "none")
    /\ UNCHANGED <<envVars, coverage_percent, taskFile, task_id, pollVars, fetchVars, dataVars,
                   metricsDocs>>

Next ==
    \/ LoadEnv
    \/ InitFirebase
    \/ ParseCoverage
    \/ SkipSonar
    \/ ReadTaskId
    \/ PollStep
    \/ PollTimeout
    \/ PrimaryFetch
    \/ FallbackFetch
    \/ FallbackBasicFetch
    \/ PrepareData
    \/ WriteMetrics
    \/ WriteSummary

Spec == Init /\ [][Next]_vars

\* One run under its scheduling: main() is a single sequential thread, so a step
\* that can be taken is taken; every request, sleep and write returns or raises.
SpecLive == Spec /\ WF_vars(Next)

----------------------------------------------------------------------------
(* Step 5 of main() on its own: the data packet and the risk level for every    *)
(* metrics mapping over the ratings A..E and "N/A", counts and coverages; the    *)
(* run reached step 5 through the fallback fetch.                                *)

Ratings == {<<"A">>, <<"B">>, <<"C">>, <<"D">>, <<"E">>, S_NA}
Absent == 0 - 1

\* the mapping with the given entries; Absent or <<>> leaves the key out
MetricsOf(v, b, c, s, m) ==
    LET full == [vulnerabilities |-> v, bugs |-> b, coverage |-> c,
                 security_rating |-> s, sqale_rating |-> m]
        keys == (IF v = Absent THEN {} ELSE {"vulnerabilities"})
                \cup (IF b = Absent THEN {} ELSE {"bugs"})
                \cup (IF c = Absent THEN {} ELSE {"coverage"})
                \cup (IF s = <<>> THEN {} ELSE {"security_rating"})
                \cup (IF m = <<>> THEN {} ELSE {"sqale_rating"})
    IN  [k \in keys |-> full[k]]

PrepareMetrics ==
    {MetricsOf(v, b, c, s, m) :
        v \in {Absent} \cup 0..MaxVulnerabilities,
        b \in {Absent, 0} \cup (MaxBugs - 1)..MaxBugs,
        c \in {Absent, 0, 8230},
        s \in Ratings \cup {<<>>},
        m \in Ratings \cup {<<>>}}

InitPrepare ==
    /\ pc = "prepare"
    /\ exitCode = NoExit
    /\ uncaught = "none"
    /\ configError = "none"
    /\ envUnset = {}
    /\ credentials = "ok"
    /\ runs = 1
    /\ test_result \in TestResults
    /\ short_commit \in {ShortCommit(sha) : sha \in CommitShas}
    /\ sonar_env = OptionalVars
    /\ coverage_percent \in {0, 6999, 7000}
    /\ taskFile = "absent"
    /\ task_id = None
    /\ poll_i = 0
    /\ pollState = "idle"
    /\ statusQueries = 0
    /\ sleeps = 0
    /\ lastResp = NoResp
    /\ terminalResponses = 0
    /\ analysis_id = None
    /\ fetchKind = "fallback"
    /\ fetchState = "returned"
    /\ measuresLog = <<[fetch |-> "fallback", auth |-> "bearer", outcome |-> "ok"]>>
    /\ measuresBody = <<>>
    /\ sonar_metrics \in PrepareMetrics
    /\ final_coverage = 0
    /\ metrics_data = EmptyMap
    /\ risk = "unset"
    /\ project_summary_data = EmptyMap
    /\ writesLog = <<>>
    /\ metricsDocs = EmptyMap
    /\ summaryDoc = EmptyMap

NextPrepare == PrepareData

SpecPrepare == InitPrepare /\ [][NextPrepare]_vars

----------------------------------------------------------------------------
(* The normalisation of a decoded measures body on its own: the fallback fetch   *)
(* has decoded a body and calls _parse_sonar_measures on its measures list, for  *)
(* every list of at most MaxMeasures measures over the keys and values below.    *)

\* measures in one decoded body
MaxMeasures == 2

ParseKeys == {"bugs", "code_smells", "coverage", "security_rating"}
ParseValues == {<<"3">>, <<"3", ".", "0">>, <<"8", "2", ".", "3">>, <<"x">>, <<"D">>, <<>>}

\* a measure has a string value, no value, or (numeric keys) a JSON null
ParsePool ==
    {Measure(k, v) : k \in ParseKeys, v \in ParseValues}
    \cup {MeasureNoValue(k) : k \in ParseKeys}
    \cup {MeasureNull(k) : k \in ParseKeys \ RatingKeys}

ParseInputs == UNION {[1..n -> ParsePool] : n \in 0..MaxMeasures}

InitParse ==
    /\ pc = "parse"
    /\ exitCode = NoExit
    /\ uncaught = "none"
    /\ configError = "none"
    /\ envUnset = {}
    /\ credentials = "ok"
    /\ runs = 1
    /\ test_result \in {"PASS"}
    /\ short_commit \in {ShortCommit(sha) : sha \in CommitShas}
    /\ sonar_env = OptionalVars
    /\ coverage_percent = 0
    /\ taskFile = "absent"
    /\ task_id = None
    /\ poll_i = 0
    /\ pollState = "idle"
    /\ statusQueries = 0
    /\ sleeps = 0
    /\ lastResp = NoResp
    /\ terminalResponses = 0
    /\ analysis_id = None
    /\ fetchKind = "fallback"
    /\ fetchState = "idle"
    /\ measuresLog = <<[fetch |-> "fallback", auth |-> "bearer", outcome |-> "ok"]>>
    /\ measuresBody \in ParseInputs
    /\ sonar_metrics = EmptyMap
    /\ final_coverage = 0
    /\ metrics_data = EmptyMap
    /\ risk = "unset"
    /\ project_summary_data = EmptyMap
    /\ writesLog = <<>>
    /\ metricsDocs = EmptyMap
    /\ summaryDoc = EmptyMap

\* get_sonar_metrics_fallback, lines 152-157: the decoded list is normalised and
\* the mapping returned, the empty one when _parse_sonar_measures raised
ParseFetched ==
    /\ pc = "parse"
    /\ sonar_metrics' = GetSonarMetricsFallback([kind |-> "ok", measures |-> measuresBody])
    /\ fetchState' = "returned"
    /\ Continue("prepare")
    /\ UNCHANGED <<envVars, coverage_percent, taskFile, task_id, pollVars, fetchKind,
                   measuresLog, measuresBody, dataVars, storeVars>>

NextParse == ParseFetched

SpecParse == InitParse /\ [][NextParse]_vars

----------------------------------------------------------------------------
(* Several runs of main() against one store: each run is a new process whose     *)
(* steps 1 to 4 find every required variable set, a good credential and the      *)
(* analysis service not configured; steps 5 and 6 are the actions above.  Runs   *)
(* may process a commit again, and either write may fail.                        *)

\* runs of main() against the store
MaxRuns == 3

\* the first two share their first seven characters, and so their document key
RunCommitShas == {<<"a", "b", "c", "1", "2", "3", "4", "5", "6">>,
                  <<"a", "b", "c", "1", "2", "3", "4", "9", "9">>,
                  <<"f", "e", "d", "1", "2", "3", "4", "5", "6">>}
RunTestResults == {"PASS", "FAIL"}
RunCoverageFiles == {[kind |-> "absent", rate |-> 0], [kind |-> "ok", rate |-> 82300]}

\* main, steps 1 to 4 of such a run, up to the start of step 5
RunToPrepare ==
    /\ pc = "env"
    /\ \E tr \in RunTestResults, sha \in RunCommitShas, file \in RunCoverageFiles :
          /\ test_result' = tr
          /\ short_commit' = ShortCommit(sha)
          /\ coverage_percent' = ParseCoverageXml(file)
    /\ envUnset' = {}
    /\ credentials' = "ok"
    /\ sonar_env' = {}
    /\ Continue(RouteAfterTaskId(SonarConfigured({}), None))
    /\ UNCHANGED <<configError, runs, taskFile, task_id, pollVars, fetchVars, dataVars, storeVars>>

\* the process has ended and the next CI run starts main() again: every local is
\* fresh, the store keeps its documents
NextRun ==
    /\ pc = "exited"
    /\ runs < MaxRuns
    /\ runs' = runs + 1
    /\ pc' = "env"
    /\ exitCode' = NoExit
    /\ uncaught' = "none"
    /\ configError' = "none"
    /\ envUnset' = {}
    /\ credentials' = "unread"
    /\ test_result' = None
    /\ short_commit' = <<>>
    /\ sonar_env' = {}
    /\ coverage_percent' = 0
    /\ final_coverage' = 0
    /\ metrics_data' = EmptyMap
    /\ risk' = "unset"
    /\ project_summary_data' = EmptyMap
    /\ writesLog' = <<>>
    /\ UNCHANGED <<taskFile, task_id, pollVars, fetchVars, metricsDocs, summaryDoc>>

NextRuns ==
    \/ RunToPrepare
    \/ PrepareData
    \/ WriteMetrics
    \/ WriteSummary
    \/ NextRun

SpecRuns == Init /\ [][NextRuns]_vars

----------------------------------------------------------------------------
(* Properties *)

Last(seq) == seq[Len(seq)]
AfterFetch == pc \in {"prepare", "write_metrics", "write_summary"} \/ (pc = "exited" /\ writesLog # <<>>)
Prepared == pc = "write_metrics"

\* C1: when none of the status responses reports SUCCESS, FAILED or CANCELED (each
\* is a request error or another status), the poller returns None after exactly 20
\* status queries without raising; there is never a 21st status query.
C1_TimeoutAfterTwentyQueries ==
    /\ statusQueries <= 20
    /\ (pollState = "returned" /\ terminalResponses = 0) =>
          /\ analysis_id = None
          /\ statusQueries = 20
          /\ uncaught = "none"

C1_Witness ==
    /\ pollState = "returned"
    /\ terminalResponses = 0
    /\ statusQueries = 20
    /\ sleeps = 20
    /\ lastResp.kind = "neterr"
    /\ analysis_id = None

\* C2: a status response that reports FAILED or CANCELED ends the poll at once: it
\* is the first terminal response, the poller has returned None, and no sleep
\* followed it (every earlier query was followed by one sleep, this one by none).
C2_FailedReturnsImmediately ==
    (lastResp.kind = "ok" /\ lastResp.status \in {"FAILED", "CANCELED"}) =>
        /\ pollState = "returned"
        /\ analysis_id = None
        /\ terminalResponses = 1
        /\ sleeps = statusQueries - 1

C2_Witness ==
    /\ lastResp.kind = "ok"
    /\ lastResp.status = "FAILED"
    /\ pollState = "returned"
    /\ statusQueries = 3
    /\ sleeps = 2

\* C3: the poller returns a value other than None only when its last response, one
\* of at most 20, reported SUCCESS; the value is the analysisId of that response,
\* and a SUCCESS response is never followed by another query.
C3_ReturnsIdOfSuccessResponse ==
    /\ (analysis_id # None) =>
          /\ pollState = "returned"
          /\ lastResp.kind = "ok"
          /\ lastResp.status = "SUCCESS"
          /\ analysis_id = lastResp.analysisId
          /\ statusQueries <= 20
    /\ (lastResp.kind = "ok" /\ lastResp.status = "SUCCESS") =>
          /\ pollState = "returned"
          /\ terminalResponses = 1

C3_Witness ==
    /\ pollState = "returned"
    /\ analysis_id = "AX2"
    /\ lastResp.analysisId = "AX2"
    /\ statusQueries = 20

\* the RED rule as the specification states it
RedRule ==
    \/ test_result = "FAIL"
    \/ ("vulnerabilities" \in DOMAIN sonar_metrics /\ sonar_metrics["vulnerabilities"] > 0)
    \/ ("security_rating" \in DOMAIN sonar_metrics
        /\ sonar_metrics["security_rating"] \in {<<"D">>, <<"E">>})

\* the YELLOW rule as the specification states it
YellowRule ==
    \/ final_coverage < 7000
    \/ ("bugs" \in DOMAIN sonar_metrics /\ sonar_metrics["bugs"] > 5)
    \/ ("sqale_rating" \in DOMAIN sonar_metrics
        /\ sonar_metrics["sqale_rating"] \in {<<"C">>, <<"D">>, <<"E">>})

\* C4: for every test outcome, vulnerability count and security rating (A..E,
\* "N/A" or absent), the risk level is RED exactly when the outcome is "FAIL", or
\* vulnerabilities > 0, or the security rating is D or E, whatever the coverage,
\* the bug count and the maintainability rating are.
C4_RedIffRedRule ==
    Prepared => (risk = "RED" <=> RedRule)

C4_Witness ==
    /\ Prepared
    /\ risk = "RED"
    /\ test_result = "PASS"
    /\ Get(sonar_metrics, "vulnerabilities", 0) = 0
    /\ Get(sonar_metrics, "security_rating", <<>>) = <<"D">>
    /\ final_coverage = 8230
    /\ Get(sonar_metrics, "sqale_rating", <<>>) = <<"A">>

\* C5: when the RED rule does not match, the risk level is YELLOW exactly when the
\* final coverage is below 70, or bugs > 5, or the maintainability rating is C, D
\* or E, and GREEN otherwise.
C5_YellowIffYellowRule ==
    (Prepared /\ ~RedRule) =>
        /\ risk = (IF YellowRule THEN "YELLOW" ELSE "GREEN")

C5_Witness ==
    /\ Prepared
    /\ ~RedRule
    /\ risk = "GREEN"
    /\ final_coverage = 7000
    /\ Get(sonar_metrics, "bugs", 0) = 5
    /\ Get(sonar_metrics, "sqale_rating", <<>>) = S_NA
    /\ Get(sonar_metrics, "security_rating", <<>>) = S_NA

C6_WitnessLocalWins ==
    /\ short_commit \in DOMAIN metricsDocs
    /\ coverage_percent = 4500
    /\ Get(sonar_metrics, "coverage", 0) = 8230
    /\ metricsDocs[short_commit].coverage = 4500

\* C7: a fetch, primary or fallback, whose measures query failed (the request
\* raised, an error status, an undecodable body) has returned the empty mapping
\* and raised nothing.
C7_FailedFetchReturnsEmpty ==
    (fetchState \in {"returned", "raised"}
     /\ Last(measuresLog).outcome \in {"neterr", "http401", "http500", "badjson"}) =>
        /\ fetchState = "returned"
        /\ sonar_metrics = EmptyMap
        /\ uncaught = "none"

\* C8: a run with all required configuration, a store connection and no failed
\* store write ends with exit code 0 after both writes, whatever the analysis
\* service answered.
C8_ExitZeroUnlessConfigOrStoreFails ==
    (pc = "exited" /\ configError = "none" /\ \A k \in 1..Len(writesLog) : writesLog[k].ok) =>
        /\ exitCode = 0
        /\ Len(writesLog) = 2

\* C9: the fallback fetch issues its first query with the bearer token, a second
\* one, with basic authentication, exactly when the first answer was 401, and
\* never a third; a 401 to the second query gives the empty mapping.
C9_OneBasicRetryOn401 ==
    fetchKind = "fallback" =>
        /\ Len(measuresLog) <= 2
        /\ fetchState = "retry" => (Len(measuresLog) = 1 /\ measuresLog[1].outcome = "http401")
        /\ fetchState = "returned" =>
              /\ Len(measuresLog) >= 1
              /\ measuresLog[1].auth = "bearer"
              /\ (Len(measuresLog) = 2 <=> measuresLog[1].outcome = "http401")
              /\ Len(measuresLog) = 2 =>
                    /\ measuresLog[2].auth = "basic"
                    /\ measuresLog[2].outcome = "http401" => sonar_metrics = EmptyMap

C9_Witness ==
    /\ fetchKind = "fallback"
    /\ fetchState = "returned"
    /\ Len(measuresLog) = 2
    /\ measuresLog[1].outcome = "http401"
    /\ measuresLog[2].auth = "basic"
    /\ measuresLog[2].outcome = "http401"
    /\ pc = "prepare"

C11_WriteFailureIsFatal ==
    /\ Len(writesLog) <= 2
    /\ Len(writesLog) >= 1 => writesLog[1].doc = "metrics"
    /\ Len(writesLog) = 2 => (writesLog[1].ok /\ writesLog[2].doc = "summary")
    /\ \A k \in 1..Len(writesLog) :
          ~writesLog[k].ok =>
              /\ k = Len(writesLog)
              /\ pc = "exited"
              /\ exitCode # NoExit
              /\ exitCode # 0

C11_Witness ==
    /\ Len(writesLog) = 1
    /\ writesLog[1] = [doc |-> "metrics", ok |-> FALSE]
    /\ pc = "exited"
    /\ exitCode = 1
    /\ summaryDoc = EmptyMap

\* C12: when a required variable is unset or empty, or the credential is malformed
\* (or the store rejects it), the process has exited with a non-zero code without
\* any status query, measures query or store write.
C12_ConfigErrorExitsBeforeAnyRequest ==
    ((pc # "env" /\ envUnset # {}) \/ credentials \in {"malformed", "rejected"}) =>
        /\ pc = "exited"
        /\ exitCode # NoExit
        /\ exitCode # 0
        /\ statusQueries = 0
        /\ measuresLog = <<>>
        /\ writesLog = <<>>

C12_Witness ==
    /\ envUnset = {"PYTEST_RESULT"}
    /\ pc = "exited"
    /\ exitCode = 1

C12_WitnessCredentials ==
    /\ credentials = "malformed"
    /\ pc = "exited"
    /\ exitCode = 1

\* C13: when one of the three optional analysis-service variables is unset or empty
\* the run issues no status query and no measures query, and a BuildMetrics
\* document it writes has 0 vulnerabilities, bugs and code smells, the three
\* ratings "N/A" and the local coverage.
C13_NoSonarWithoutAllThree ==
    (pc \notin {"env"} /\ ~(OptionalVars \subseteq sonar_env)) =>
        /\ statusQueries = 0
        /\ measuresLog = <<>>
        /\ taskFile = "unread"
        /\ \A c \in DOMAIN metricsDocs :
              /\ metricsDocs[c].vulnerabilities = 0
              /\ metricsDocs[c].bugs = 0
              /\ metricsDocs[c].codeSmells = 0
              /\ metricsDocs[c].maintainability = S_NA
              /\ metricsDocs[c].reliability = S_NA
              /\ metricsDocs[c].security = S_NA
              /\ metricsDocs[c].coverage = coverage_percent

C13_Witness ==
    /\ sonar_env = {"SONAR_TOKEN", "SONAR_PROJECT_KEY"}
    /\ short_commit \in DOMAIN metricsDocs
    /\ metricsDocs[short_commit].coverage = 4500
    /\ metricsDocs[short_commit].security = S_NA
    /\ exitCode = 0

\* the entry the specification's normalisation rules give for one measure
NormalisedValue(m) ==
    IF m.metric \in RatingKeys
    THEN (IF m.kind = "str" THEN m.value ELSE <<"0">>)
    ELSE IF m.metric = "coverage"
    THEN (IF m.kind = "str" /\ FloatValid(m.value) THEN FloatHundredths(m.value) ELSE 0)
    ELSE (IF m.kind = "str" /\ IntValid(m.value) THEN IntValue(m.value) ELSE 0)

\* C14: after a decoded measures list has been normalised, every measure of the
\* list (the last one of its key) has its own entry in the mapping: a rating its
\* string, coverage its number or 0.0 when invalid or missing, any other key its
\* integer or 0 when invalid or missing, whatever the other measures' values are.
C14_MeasuresMappedIndependently ==
    (fetchState = "returned" /\ Last(measuresLog).outcome = "ok") =>
        \A k \in 1..Len(measuresBody) :
            (\A j \in (k + 1)..Len(measuresBody) : measuresBody[j].metric # measuresBody[k].metric) =>
                /\ measuresBody[k].metric \in DOMAIN sonar_metrics
                /\ sonar_metrics[measuresBody[k].metric] = NormalisedValue(measuresBody[k])

\* C14 on measures whose value is a string or missing (checked to hold)
C14_StringValuesMappedIndependently ==
    (\A k \in 1..Len(measuresBody) : measuresBody[k].kind # "null") =>
        C14_MeasuresMappedIndependently

\* the fetch has issued a measures query in this run
Invoked(fetch) == \E k \in 1..Len(measuresLog) : measuresLog[k].fetch = fetch

\* a task identifier was read, the poller has returned and the fetch that
\* followed has ended
FetchedAfterPoll ==
    Truthy(task_id) /\ pollState = "returned" /\ fetchState \in {"returned", "raised"}

\* C15 as stated: after a poll, the primary fetch is invoked exactly when the
\* poller returned a value other than None, the fallback fetch exactly when it
\* returned None, and never both.
C15_FetchFollowsPollResult ==
    /\ ~(Invoked("primary") /\ Invoked("fallback"))
    /\ FetchedAfterPoll =>
          /\ Invoked("primary") <=> analysis_id # None
          /\ Invoked("fallback") <=> analysis_id = None

\* C15 as amended: after a poll, the primary fetch is invoked exactly when the
\* poller returned a non-empty analysis identifier, the fallback fetch exactly
\* when it returned None or an empty identifier, and never both, so an empty
\* mapping from the primary fetch is not followed by a fallback fetch.
C15_FetchFollowsUsableId ==
    /\ ~(Invoked("primary") /\ Invoked("fallback"))
    /\ FetchedAfterPoll =>
          /\ Invoked("primary") <=> analysis_id \notin {None, ""}
          /\ Invoked("fallback") <=> analysis_id \in {None, ""}

C15_Witness ==
    /\ FetchedAfterPoll
    /\ analysis_id = "AX1"
    /\ Invoked("primary")
    /\ sonar_metrics = EmptyMap
    /\ Len(measuresLog) = 1
    /\ pc = "exited"
    /\ exitCode = 0

C15_WitnessEmptyId ==
    /\ FetchedAfterPoll
    /\ analysis_id = ""
    /\ Invoked("fallback")

\* C16: between runs, whenever the ProjectSummary document exists, the BuildMetrics
\* document under the key its latestCommit names exists and equals its
\* latestMetrics.
C16_SummaryMatchesLatestBuild ==
    (pc = "exited" /\ summaryDoc # EmptyMap) =>
        /\ summaryDoc.latestCommit \in DOMAIN metricsDocs
        /\ summaryDoc.latestMetrics = metricsDocs[summaryDoc.latestCommit]

\* C16 for runs that do not fail at the summary write (checked to hold)
C16_SummaryMatchesAfterSuccess ==
    (pc = "exited" /\ exitCode = 0) =>
        /\ summaryDoc.latestCommit = short_commit
        /\ summaryDoc.latestMetrics = metricsDocs[short_commit]

\* the risk rules read off the fields of a stored BuildMetrics record: a rating
\* counts when it is not "N/A" and compares greater than "C" (security) or "B"
\* (maintainability)
StoredRed(d) ==
    \/ d.testResult = "FAIL"
    \/ d.vulnerabilities > 0
    \/ (d.security # S_NA /\ StrGreater(d.security, <<"C">>))

StoredYellow(d) ==
    \/ d.coverage < 7000
    \/ d.bugs > 5
    \/ (d.maintainability # S_NA /\ StrGreater(d.maintainability, <<"B">>))

StoredRisk(d) ==
    IF StoredRed(d) THEN "RED" ELSE IF StoredYellow(d) THEN "YELLOW" ELSE "GREEN"

\* C17: whenever a ProjectSummary has been written, its riskScore is the risk level
\* obtained from the fields of the latestMetrics embedded in it (testResult, the
\* stored coverage, vulnerabilities, bugs, security, maintainability), a stored
\* rating "N/A" contributing to neither RED nor YELLOW; the coverage stored by a
\* run that completes is its final coverage after substitution, not the raw local
\* one.
C17_RiskMatchesEmbeddedMetrics ==
    summaryDoc # EmptyMap =>
        /\ summaryDoc.riskScore = StoredRisk(summaryDoc.latestMetrics)
        /\ (pc = "exited" /\ exitCode = 0) =>
              /\ summaryDoc.latestMetrics.coverage = final_coverage
              /\ (coverage_percent = 0 /\ Get(sonar_metrics, "coverage", 0) > 0) =>
                    summaryDoc.latestMetrics.coverage = sonar_metrics["coverage"]

\* a summary written with the remote coverage substituted for a local 0: GREEN,
\* where the raw local coverage would have given YELLOW
C17_Witness ==
    /\ summaryDoc # EmptyMap
    /\ coverage_percent = 0
    /\ summaryDoc.latestMetrics.coverage = 8230
    /\ summaryDoc.riskScore = "GREEN"

\* a summary written with the security rating "N/A" stored and a level below RED
C17_WitnessNotAvailable ==
    /\ summaryDoc # EmptyMap
    /\ "security_rating" \in DOMAIN sonar_metrics
    /\ summaryDoc.latestMetrics.security = S_NA
    /\ summaryDoc.riskScore # "RED"

\* the two store writes of a run, both returned
BothWritesDone ==
    writesLog = <<[doc |-> "metrics", ok |-> TRUE], [doc |-> "summary", ok |-> TRUE]>>

\* C18: every run eventually terminates, with exit code 0 only after both store
\* writes and with a non-zero exit code otherwise, and at no point has it issued
\* more than 20 status queries or more than 2 measures queries.
C18_TerminatesWithinBudget ==
    /\ <>(pc = "exited")
    /\ [](/\ statusQueries <= 20
          /\ Len(measuresLog) <= 2
          /\ pc = "exited" => \/ (exitCode = 0 /\ BothWritesDone)
                               \/ (exitCode > 0 /\ ~BothWritesDone))

\* a run that used the whole budget, 20 status queries and 2 measures queries, and
\* ended with exit code 0
C18_Witness ==
    /\ pc = "exited"
    /\ exitCode = 0
    /\ BothWritesDone
    /\ statusQueries = 20
    /\ Len(measuresLog) = 2

====
